---- MODULE Spec2Model ----
(***************************************************************************)
(* Model of the async work system of libHttpClient                         *)
(* (Source/Task/AsyncLib.cpp, _WIN32 build: wait event and delay timer).   *)
(*                                                                         *)
(* One caller-owned AsyncBlock and the AsyncState allocated for it by      *)
(* BeginAsync.  Every public API call and every callback (WorkerCallback,  *)
(* TimerCallback, CompletionCallbackForAsyncState) is split into steps at  *)
(* the points where it reads or writes memory shared with other threads:   *)
(* a section under the block's spin lock is one step, except where it      *)
(* also writes a field other threads read without the lock.                *)
(*                                                                         *)
(* A null AsyncStateRef dereference faults the process (crashed).  A read  *)
(* or write of an AsyncState after its destructor ran is undefined: the    *)
(* step acts on the stale memory and sets ub, after which the process may  *)
(* also fault at any time (UBFault).                                       *)
(*                                                                         *)
(* PoolSpec is the STL thread pool (Source/Task/ThreadPool_stl.cpp): the   *)
(* worker loop, Submit and Terminate, one step per access to the atomics   *)
(* and per mutex / condition variable operation.  ListSpec is the stress   *)
(* test of the lockless list (Tests/UnitTests/Tests/LocklessListTests.cpp, *)
(* VerifySeveralThreads) over a list whose push_back and pop_front are     *)
(* atomic.  CleanupSpec is CleanupState on a queue that also holds the     *)
(* callbacks of another call.  SubmitFailSpec is scheduling on a queue     *)
(* whose SubmitAsyncCallback can fail.  The specifications share the       *)
(* variables; each leaves the variables of the others unchanged.           *)
(***************************************************************************)
EXTENDS Integers, Sequences, FiniteSets, TLC

\* ---- bounds of the model -------------------------------------------------
\* API calls the client threads make in one behaviour
MaxCalls == 2
\* API calls the provider makes inside DoWork in one behaviour
MaxProviderCalls == 1
\* payload size the provider declares in CompleteAsync(.., n), n > 0
PayloadSize == 2

\* worker threads of the thread pool (std::thread::hardware_concurrency())
NumThreads == 2
\* Submit calls made on the pool in one behaviour
MaxSubmits == 2
\* the lockless list's stress test, scaled down
totalPushThreads == 2
totalPopThreads == 2
callsPerThread == 2

\* callbacks in a channel of the queue when a call on it is reaped
MaxQueued == 3

\* ---- threads --------------------------------------------------------------
Clients == {"c1"}
Workers == {"w1"}
Threads == Clients \cup Workers


\* ---- HRESULT ------------------------------------------------------------
HResults == {"S_OK", "S_FALSE", "E_PENDING", "E_ABORT", "E_UNEXPECTED",
             "E_INVALIDARG", "E_NOT_SUPPORTED", "E_NOT_SUFFICIENT_BUFFER",
             "E_FAIL", "E_OUTOFMEMORY"}
SUCCEEDED(hr) == hr \in {"S_OK", "S_FALSE"}

\* arguments of GetAsyncResult: "A" is the token given to BeginAsync; the
\* buffer is null, too small or large enough
GetResultArgs ==
    {[token |-> "A", buffer |-> FALSE, bufferSize |-> PayloadSize],
     [token |-> "A", buffer |-> TRUE, bufferSize |-> PayloadSize - 1],
     [token |-> "A", buffer |-> TRUE, bufferSize |-> PayloadSize],
     [token |-> "B", buffer |-> TRUE, bufferSize |-> PayloadSize]}
\* arguments the provider (or any thread on its behalf) passes to
\* CompleteAsync: E_PENDING, a failure (without payload), or success without
\* or with a payload
CompleteArgs ==
    {[result |-> "E_PENDING", requiredBufferSize |-> 0],
     [result |-> "E_FAIL", requiredBufferSize |-> 0],
     [result |-> "S_OK", requiredBufferSize |-> 0],
     [result |-> "S_OK", requiredBufferSize |-> PayloadSize]}
\* values the provider returns from AsyncOp_DoWork
DoWorkResults == {"E_PENDING", "S_OK", "E_FAIL"}
\* values the provider returns from AsyncOp_GetResult
GetResultResults == {"S_OK", "E_NOT_SUFFICIENT_BUFFER"}
\* ScheduleAsync delays
Delays == {0, 1}
\* what the thread that begins the call does before it shares the block:
\* nothing, ScheduleAsync(block, 0) or ScheduleAsync(block, delay > 0)
BeginSchedules == {"none", "now", "later"}

VARIABLES
    begun,        \* BeginAsync has returned S_OK for the block
    hasCallback,  \* asyncBlock->callback != nullptr
    blk,          \* AsyncBlockInternal: state, status, lock
    S,            \* the AsyncState object (also after it was deleted)
    workQ,        \* Work channel of providerData.queue: contexts, FIFO
    complQ,       \* Completion channel of providerData.queue
    timerArmed,   \* the thread pool timer is set and has not fired
    globalCount,  \* s_AsyncLibGlobalStateCount
    pc,           \* position of every thread
    loc,          \* locals of the API call a thread is in
    wk,           \* locals of WorkerCallback
    crashed,      \* the process faulted
    ub,           \* a deleted AsyncState was read or written
    calls,        \* API calls made so far
    g,            \* history (ghost) variables
    \* the thread pool (Source/Task/ThreadPool_stl.cpp)
    pool,         \* the ThreadPoolImpl object
    pth,          \* position and locals of the pool's threads and of its user
    ph,           \* history of the pool
    \* the lockless list under its stress test
    list,         \* the LocklessList: nodes, oldest first
    push,         \* the test's push threads
    pop,          \* the test's pop threads
    slots         \* the test's slots array and its verdict

asyncVars == <<begun, hasCallback, blk, S, workQ, complQ, timerArmed,
               globalCount, pc, loc, wk, crashed, ub, calls, g>>
poolVars == <<pool, pth, ph>>
listVars == <<list, push, pop, slots>>

vars == <<asyncVars, poolVars, listVars>>

\* ---- AsyncState ---------------------------------------------------------
NewAsyncState ==
    [alive |-> TRUE, refs |-> 1, workScheduled |-> FALSE,
     timerScheduled |-> FALSE, canceled |-> FALSE, bufferSize |-> 0,
     timer |-> FALSE, waitEvent |-> FALSE, token |-> "A"]

NoAsyncState == [NewAsyncState EXCEPT !.alive = FALSE, !.refs = 0]

\* refs and s_AsyncLibGlobalStateCount are std::atomic<uint32_t>.  The model
\* holds such a value as the congruent integer of least magnitude, so that
\* -1 stands for 0xFFFFFFFF: decrementing 0 wraps and does not compare equal
\* to 0.
AddRef(s) == [s EXCEPT !.refs = @ + 1]

\* --refs == 0 deletes the object
Release(s) ==
    LET r == s.refs - 1
    IN  [s EXCEPT !.refs = r, !.alive = IF r = 0 THEN FALSE ELSE @]

Deletes(s) == s.refs - 1 = 0

\* ~AsyncState: --s_AsyncLibGlobalStateCount
CountAfterRelease(s, n) == IF Deletes(s) THEN n - 1 ELSE n

\* ---- AsyncBlockInternalGuard ---------------------------------------------
GetStatus(b) == b.status

\* a TrySetTerminalStatus that stores the status whatever the current one is
TrySetTerminalStatusOverwrite(b, status) == [b EXCEPT !.status = status]

\* the block after TrySetTerminalStatus(status)
TrySetTerminalStatus(b, status) ==
    IF b.status = "E_PENDING" THEN [b EXCEPT !.status = status] ELSE b

\* a TrySetTerminalStatus that reports success to every caller
TrySetWinsAlways(b) == TRUE

\* the value TrySetTerminalStatus returns
TrySetWins(b) == b.status = "E_PENDING"

\* an ExtractState that leaves the pointer in the block
ExtractStateKeeps(b) == b

\* ExtractState: the state pointer is taken out of the block, which is left
\* with nullptr
ExtractState(b) == [b EXCEPT !.state = "null"]

\* a check that looks at the state pointer only
AllZeroStateOnly(b) == b.state = "null"

\* AllocState: every byte of asyncBlock->internal is 0 (a null state pointer,
\* status 0 = S_OK, a clear lock flag)
AllZero(b) == b.state = "null" /\ b.status = "S_OK" /\ ~b.lock

\* ---- locals ---------------------------------------------------------------
NoLoc ==
    [op |-> "none", st |-> "null", res |-> "E_PENDING",
     completedNow |-> FALSE, doCleanup |-> FALSE,
     wait |-> FALSE, token |-> "A", buffer |-> FALSE, bufferSize |-> 0,
     delayInMs |-> 0, result |-> "S_OK", requiredBufferSize |-> 0,
     ret |-> "idle",
     \* history of the call
     afterTerm |-> FALSE,   \* the status was terminal when the call began
     retry |-> FALSE,       \* GetAsyncResult begun after a failed one (see g.retryable)
     early |-> FALSE,       \* GetAsyncResult left by one of its two early returns
     provFailed |-> FALSE,  \* the provider's GetResult op failed
     first |-> FALSE,       \* no GetAsyncResult was begun before this one
     settled |-> FALSE,     \* GetAsyncResult(Size): completion was signaled and no attempt had lost when the call began
     bufferUsed |-> 0,      \* *bufferUsed as GetAsyncResult wrote it
     won |-> FALSE]         \* the call won TrySetTerminalStatus

NoWk ==
    [result |-> "E_PENDING", completedNow |-> FALSE,
     called |-> FALSE,      \* the provider made an API call inside DoWork
     \* history of the invocation
     raw |-> "none",        \* value the provider returned from DoWork
     pre |-> "none"]        \* block status right before the worker's TrySetTerminalStatus

NoGhost ==
    [callbacks |-> 0,       \* invocations of asyncBlock->callback
     signals |-> 0,         \* calls of SignalCompletion
     signalBy |-> "none",   \* who called SignalCompletion
     waitSignals |-> 0,     \* SignalWait called from SignalCompletion
     complSubmits |-> 0,    \* completion callbacks submitted
     didWork |-> FALSE,     \* provider(AsyncOp_DoWork) was invoked
     cancelOps |-> 0,       \* invocations of provider(AsyncOp_Cancel)
     cleanupOps |-> 0,      \* invocations of provider(AsyncOp_Cleanup)
     getResultOps |-> 0,    \* invocations of provider(AsyncOp_GetResult)
     deletes |-> 0,         \* runs of ~AsyncState
     firstTerminal |-> "none", \* value of the first successful TrySetTerminalStatus
     wonBy |-> "none",      \* operation that made it
     wonThread |-> "none",  \* thread that made it
     wins |-> 0,            \* TrySetTerminalStatus calls that returned true
     lost |-> FALSE,        \* a TrySetTerminalStatus call returned false
     getResultCalled |-> FALSE, \* GetAsyncResult was called
     completeSize |-> 0,    \* requiredBufferSize of the CompleteAsync that won
     timerReleases |-> 0,   \* releases of the reference taken for the timer
     removed |-> 0,         \* Work callbacks removed by CleanupState
     retryable |-> FALSE,   \* a GetAsyncResult returned by an early return
     reaperReturned |-> FALSE, \* a GetAsyncResult or CancelAsync has returned
     doWorkPending |-> FALSE,  \* a DoWork returned E_PENDING
     wonAfterPending |-> FALSE, \* ... before the status became terminal
     cancelBeforeFire |-> FALSE, \* CancelAsync won while the delay timer was armed
     faultIn |-> "none"]    \* operation in which the process faulted

\* ---- ThreadPoolImpl -------------------------------------------------------
\* thread 0 is the pool's user, threads 1..NumThreads are m_pool
PoolWorkers == 1..NumThreads
PoolThreads == 0..NumThreads

\* the object after Initialize; a mutex is the set of its owners; the
\* counters are std::atomic<uint32_t>, held as congruent integers
NewThreadPool ==
    [m_refs |-> 1, m_calls |-> 0, m_activeCalls |-> 0, m_terminate |-> FALSE,
     m_wakeLock |-> {}, m_activeLock |-> {}, m_pool |-> PoolWorkers,
     deleted |-> FALSE]

NewPoolThreads ==
    [t \in PoolThreads |->
        [pc |-> IF t = 0 THEN "idle" ELSE "start",
         Invoked |-> FALSE,     \* ActionCompleteImpl::Invoked of the current call
         ret |-> "none"]]       \* where the thread was when it called Terminate

NoPoolHistory ==
    [submits |-> 0,         \* Submit calls begun
     invoked |-> 0,         \* invocations of m_callback begun
     completed |-> 0,       \* ActionComplete invocations
     caller |-> {},         \* the thread that called Terminate
     returned |-> FALSE]    \* Terminate has returned

\* ---- the lockless list's stress test ----------------------------------------
PushThreads == 0..(totalPushThreads - 1)
PopThreads == 0..(totalPopThreads - 1)

NewPushThreads == [t \in PushThreads |-> [pc |-> "run", callIndex |-> 0]]
\* node: the set holding the popped node, empty for nullptr
NewPopThreads == [t \in PopThreads |-> [pc |-> "run", node |-> {}]]
\* set: the indices whose slot is true; fail: VERIFY_FAIL was reached
NewSlots == [set |-> {}, fail |-> FALSE]

Init ==
    /\ pool = NewThreadPool /\ pth = NewPoolThreads /\ ph = NoPoolHistory
    /\ list = <<>> /\ push = NewPushThreads /\ pop = NewPopThreads
    /\ slots = NewSlots
    /\ begun = FALSE
    /\ hasCallback \in BOOLEAN
    /\ blk = [state |-> "null", status |-> "S_OK", lock |-> FALSE]
    /\ S = NoAsyncState
    /\ workQ = <<>>
    /\ complQ = <<>>
    /\ timerArmed = FALSE
    /\ globalCount = 0
    /\ pc = [t \in Threads |-> "idle"]
    /\ loc = [t \in Threads |-> NoLoc]
    /\ wk = [w \in Workers |-> NoWk]
    /\ crashed = FALSE
    /\ ub = FALSE
    /\ calls = [client |-> 0, provider |-> 0]
    /\ g = NoGhost

\* ---- helpers of the steps -------------------------------------------------
Running == begun /\ ~crashed
Goto(t, l) == pc' = [pc EXCEPT ![t] = l]
\* the step reads or writes *state through a non-null pointer
Touch == ub' = (ub \/ ~S.alive)
Fault(op) == /\ crashed' = TRUE
             /\ g' = [g EXCEPT !.faultIn = op]

\* BeginAsync on a zeroed block with a queue: AllocState succeeds.  The
\* beginning thread may go on to ScheduleAsync(sched) before any other thread
\* knows the block; nothing can interleave with that call, so it is part of
\* this action.
BeginAsync(sched) ==
    /\ UNCHANGED <<poolVars, listVars>>
    /\ ~begun /\ ~crashed
    /\ AllZero(blk)
    /\ begun' = TRUE
    /\ blk' = [state |-> "S", status |-> "E_PENDING", lock |-> FALSE]
    /\ globalCount' = globalCount + 1
    /\ IF sched = "none"
       THEN /\ S' = NewAsyncState
            /\ UNCHANGED <<workQ, timerArmed>>
       ELSE IF sched = "now"
       THEN /\ S' = AddRef([NewAsyncState EXCEPT !.workScheduled = TRUE])
            /\ workQ' = Append(workQ, "S")
            /\ timerArmed' = timerArmed
       ELSE /\ S' = AddRef([NewAsyncState EXCEPT !.workScheduled = TRUE,
                               !.timer = TRUE, !.timerScheduled = TRUE])
            /\ timerArmed' = TRUE
            /\ workQ' = workQ
    /\ UNCHANGED <<hasCallback, complQ, pc, loc, wk, crashed, ub, calls, g>>

\* BeginAsync when AllocStateNoCompletion fails (new (std::nothrow) AsyncState
\* returns null): internal->status = hr.  With a queue and a callback
\* SubmitAsyncCallback(queue, Completion, asyncBlock,
\* CompletionCallbackForAsyncBlock) succeeds and AllocState returns that S_OK,
\* so BeginAsync goes on to state = internal.GetState() and writes
\* state->provider through the null state.  Without a callback AllocState
\* and BeginAsync return hr.
BeginAsyncAllocFails ==
    /\ UNCHANGED <<poolVars, listVars>>
    /\ ~begun /\ ~crashed
    /\ AllZero(blk)
    /\ blk' = [state |-> "null", status |-> "E_OUTOFMEMORY", lock |-> FALSE]
    /\ IF hasCallback
       THEN /\ complQ' = Append(complQ, "block")
            /\ Fault("BeginAsync")
       ELSE UNCHANGED <<complQ, crashed, g>>
    /\ UNCHANGED <<begun, hasCallback, S, workQ, timerArmed, globalCount, pc,
                   loc, wk, ub, calls>>

\* ---- steps shared by the API calls ---------------------------------------
\* history of a TrySetTerminalStatus(status) call made by thread t in operation by
Tried(gg, b, status, by, t) ==
    IF TrySetWins(b)
    THEN [gg EXCEPT !.wins = @ + 1,
                    !.firstTerminal = IF @ = "none" THEN status ELSE @,
                    !.wonBy = IF gg.firstTerminal = "none" THEN by ELSE @,
                    !.wonThread = IF gg.firstTerminal = "none" THEN t ELSE @,
                    !.wonAfterPending = IF gg.firstTerminal = "none"
                                        THEN gg.doWorkPending ELSE @]
    ELSE [gg EXCEPT !.lost = TRUE]

GDel(gg, s) == IF Deletes(s) THEN [gg EXCEPT !.deletes = @ + 1] ELSE gg

\* A client thread begins an API call, or the provider makes one inside
\* DoWork (CompleteAsync or ScheduleAsync, at most one per DoWork).
CanCall(t) ==
    /\ Running
    /\ \/ t \in Clients /\ pc[t] = "idle" /\ calls.client < MaxCalls
       \/ /\ t \in Workers /\ pc[t] = "wk_dowork" /\ ~wk[t].called
          /\ calls.provider < MaxProviderCalls

Called(t) ==
    /\ calls' = IF t \in Clients THEN [calls EXCEPT !.client = @ + 1]
                                 ELSE [calls EXCEPT !.provider = @ + 1]
    /\ wk' = IF t \in Workers THEN [wk EXCEPT ![t].called = TRUE] ELSE wk

Frame(t, l) == [NoLoc EXCEPT !.ret = pc[t], !.op = l]

\* the frame of a call that has read the block under the guard
Enter(t, l) ==
    [Frame(t, l) EXCEPT !.st = blk.state, !.res = GetStatus(blk),
                        !.afterTerm = (g.firstTerminal # "none")]

\* GetState / ExtractState: AsyncStateRef{ m_internal->state } takes a reference
TakeRef ==
    /\ S' = IF blk.state = "null" THEN S ELSE AddRef(S)
    /\ ub' = (ub \/ (blk.state # "null" /\ ~S.alive))

\* SignalCompletion(state) on the non-null state s; with cleanup the caller
\* goes on to CleanupState(state) and enters state->provider(AsyncOp_Cleanup, ..)
SignalCompletion(s, by, cleanup) ==
    /\ Touch
    /\ LET g1 == [g EXCEPT !.signals = @ + 1, !.signalBy = by,
                           !.cleanupOps = IF cleanup THEN @ + 1 ELSE @]
       IN  IF hasCallback
           THEN /\ S' = AddRef(s)
                /\ complQ' = Append(complQ, "S")
                /\ g' = [g1 EXCEPT !.complSubmits = @ + 1]
           ELSE /\ S' = [s EXCEPT !.waitEvent = TRUE]
                /\ complQ' = complQ
                /\ g' = [g1 EXCEPT !.waitSignals = @ + 1]

\* return of an API call: ~AsyncStateRef releases the local reference
Exit(t) ==
    /\ UNCHANGED <<poolVars, listVars>>
    /\ Running /\ pc[t] = "exit"
    /\ IF loc[t].st = "null"
       THEN /\ UNCHANGED <<S, globalCount, ub>>
            /\ g' = [g EXCEPT
                 !.retryable = @ \/ loc[t].early,
                 !.reaperReturned = @ \/ loc[t].op \in {"GetAsyncResult", "CancelAsync"}]
       ELSE /\ S' = Release(S)
            /\ globalCount' = CountAfterRelease(S, globalCount)
            /\ Touch
            /\ g' = [GDel(g, S) EXCEPT
                 !.retryable = @ \/ loc[t].early,
                 !.reaperReturned = @ \/ loc[t].op \in {"GetAsyncResult", "CancelAsync"}]
    /\ Goto(t, loc[t].ret)
    /\ loc' = [loc EXCEPT ![t] = NoLoc]
    /\ UNCHANGED <<begun, hasCallback, blk, workQ, complQ, timerArmed, wk,
                   crashed, calls>>

\* ---- BeginAsync on a block in use ----------------------------------------
\* AllocState on the block of the call: E_INVALIDARG unless
\* asyncBlock->internal is all zero.  On an all-zero block it goes on to
\* construct a new AsyncBlockInternal for a second call ("ba_new"), whose
\* life cycle is the one that starts at Init and is not followed here.
BeginAsyncAgain(t) ==
    /\ UNCHANGED <<poolVars, listVars>>
    /\ CanCall(t) /\ t \in Clients
    /\ Called(t)
    /\ loc' = [loc EXCEPT ![t] = [Enter(t, "BeginAsync") EXCEPT
                   !.st = "null",
                   !.res = IF AllZero(blk) THEN "S_OK" ELSE "E_INVALIDARG"]]
    /\ Goto(t, IF AllZero(blk) THEN "ba_new" ELSE "exit")
    /\ UNCHANGED <<begun, hasCallback, blk, S, workQ, complQ, timerArmed,
                   globalCount, crashed, ub, g>>

\* ---- GetAsyncStatus ------------------------------------------------------
\* result = internal.GetStatus(); state = internal.GetState()
GetAsyncStatus1(t, wait) ==
    /\ UNCHANGED <<poolVars, listVars>>
    /\ CanCall(t) /\ t \in Clients /\ ~blk.lock
    /\ Called(t)
    /\ TakeRef
    /\ IF ~wait
       THEN /\ Goto(t, "exit")
            /\ loc' = [loc EXCEPT ![t] = Enter(t, "GetAsyncStatus")]
       ELSE IF blk.state = "null"
       THEN \* RETURN_HR_IF(E_INVALIDARG, result == E_PENDING)
            /\ Goto(t, "exit")
            /\ loc' = [loc EXCEPT ![t] = [Enter(t, "GetAsyncStatus") EXCEPT
                          !.wait = TRUE,
                          !.res = IF GetStatus(blk) = "E_PENDING"
                                  THEN "E_INVALIDARG" ELSE GetStatus(blk)]]
       ELSE /\ Goto(t, "gs_wait")
            /\ loc' = [loc EXCEPT ![t] = [Enter(t, "GetAsyncStatus") EXCEPT
                          !.wait = TRUE]]
    /\ UNCHANGED <<begun, hasCallback, blk, workQ, complQ, timerArmed,
                   globalCount, crashed, g>>

\* a wait that returns without the event having been set
WaitSatisfiedAlways(s) == TRUE

\* the wait on state->waitEvent (state->waitSatisfied) returns
WaitSatisfied(s) == s.waitEvent

\* WaitForSingleObjectEx(state->waitEvent, INFINITE, TRUE) returns
\* WAIT_OBJECT_0; result = GetAsyncStatus(asyncBlock, false): the inner call
\* takes and drops its own reference
GetAsyncStatus2(t) ==
    /\ UNCHANGED <<poolVars, listVars>>
    /\ Running /\ pc[t] = "gs_wait" /\ ~blk.lock
    /\ WaitSatisfied(S)
    /\ Touch
    /\ loc' = [loc EXCEPT ![t].res = GetStatus(blk)]
    /\ Goto(t, "exit")
    /\ UNCHANGED <<begun, hasCallback, blk, S, workQ, complQ, timerArmed,
                   globalCount, wk, crashed, calls, g>>

\* ---- GetAsyncResultSize --------------------------------------------------
\* result = internal.GetStatus(); state = internal.GetState();
\* if (SUCCEEDED(result)) *bufferSize = state->providerData.bufferSize
GetAsyncResultSize(t) ==
    /\ UNCHANGED <<poolVars, listVars>>
    /\ CanCall(t) /\ t \in Clients /\ ~blk.lock
    /\ Called(t)
    /\ TakeRef
    /\ loc' = [loc EXCEPT ![t] =
           LET l == [Enter(t, "GetAsyncResultSize") EXCEPT
                         !.settled = (g.signals > 0 /\ ~g.lost)]
           IN  IF ~SUCCEEDED(GetStatus(blk))
               THEN l
               ELSE IF blk.state = "null"
               THEN [l EXCEPT !.res = "E_INVALIDARG"]
               ELSE [l EXCEPT !.bufferSize = S.bufferSize]]
    /\ Goto(t, "exit")
    /\ UNCHANGED <<begun, hasCallback, blk, workQ, complQ, timerArmed,
                   globalCount, crashed, g>>

\* ---- CleanupState ----------------------------------------------------------
\* a CleanupState without its null check
CleanupPcUnchecked(st) == "cl_prov"

\* CleanupState(state) is entered with the caller's local reference st: with
\* a null reference it returns at once, otherwise it enters
\* state->provider(AsyncOp_Cleanup, ..)
CleanupPc(st) == IF st = "null" THEN "exit" ELSE "cl_prov"
CleanupOps(gg, st) ==
    IF st = "null" THEN gg ELSE [gg EXCEPT !.cleanupOps = @ + 1]

RECURSIVE ReleaseN(_, _)
ReleaseN(s, n) == IF n = 0 THEN s ELSE ReleaseN(Release(s), n - 1)

RECURSIVE DeletesN(_, _)
DeletesN(s, n) ==
    IF n = 0 THEN 0
    ELSE (IF Deletes(s) THEN 1 ELSE 0) + DeletesN(Release(s), n - 1)

\* a predicate that accepts every callback of the channel
removePredicateAny(pCxt, cCxt) == TRUE

\* removePredicate: pCxt == cCxt (it then releases one reference of the
\* state and returns true)
removePredicate(pCxt, cCxt) == pCxt = cCxt

\* RemoveAsyncQueueCallbacks(queue, Work, WorkerCallback, pCxt, removePredicate)
\* walks the Work channel in FIFO order and drops every record for which the
\* predicate returns true
RemoveAsyncQueueCallbacks(q, pCxt) ==
    SelectSeq(q, LAMBDA cCxt : ~removePredicate(pCxt, cCxt))

\* the provider's Cleanup op returns;
\* RemoveAsyncQueueCallbacks(queue, Work, WorkerCallback, state, removePredicate):
\* the predicate releases one reference for every record it accepts;
\* state->Release(): the reference the block held
CleanupState(t) ==
    /\ UNCHANGED <<poolVars, listVars>>
    /\ Running /\ pc[t] = "cl_prov"
    /\ LET n == Cardinality({i \in 1..Len(workQ) :
                                removePredicate("S", workQ[i])})
           d == DeletesN(S, n + 1)
       IN  /\ workQ' = RemoveAsyncQueueCallbacks(workQ, "S")
           /\ S' = ReleaseN(S, n + 1)
           /\ globalCount' = globalCount - d
           /\ g' = [g EXCEPT !.deletes = @ + d, !.removed = @ + n]
           /\ Touch
    /\ Goto(t, "exit")
    /\ UNCHANGED <<begun, hasCallback, blk, complQ, timerArmed, loc, wk,
                   crashed, calls>>

\* ---- CancelAsync ---------------------------------------------------------
\* guard taken; TrySetTerminalStatus(E_ABORT); ExtractState
CancelAsync1(t) ==
    /\ UNCHANGED <<poolVars, listVars>>
    /\ CanCall(t) /\ t \in Clients /\ ~blk.lock
    /\ Called(t)
    /\ IF ~TrySetWins(blk)
       THEN /\ Goto(t, "exit")
            /\ loc' = [loc EXCEPT ![t] = [Enter(t, "CancelAsync") EXCEPT
                                             !.st = "null"]]
            /\ g' = Tried(g, blk, "E_ABORT", "CancelAsync", t)
            /\ UNCHANGED <<blk, S, ub>>
       ELSE /\ blk' = [ExtractState(TrySetTerminalStatus(blk, "E_ABORT"))
                          EXCEPT !.lock = TRUE]
            /\ loc' = [loc EXCEPT ![t] = [Enter(t, "CancelAsync") EXCEPT
                                             !.won = TRUE, !.doCleanup = TRUE]]
            /\ TakeRef
            /\ g' = [Tried(g, blk, "E_ABORT", "CancelAsync", t) EXCEPT
                              !.cancelBeforeFire =
                                  /\ timerArmed
                                  /\ ~g.didWork /\ workQ = <<>>
                                  /\ \A u \in Threads : loc[u].op # "ScheduleAsync"]
            /\ Goto(t, "cn2")
    /\ UNCHANGED <<begun, hasCallback, workQ, complQ, timerArmed, globalCount,
                   crashed>>

\* a guard whose destructor leaves the lock flag set
GuardKept(b) == b

\* ~AsyncBlockInternalGuard: m_internal->lock.clear()
GuardReleased(b) == [b EXCEPT !.lock = FALSE]

\* state->canceled = true; the guard is released
CancelAsync2(t) ==
    /\ UNCHANGED <<poolVars, listVars>>
    /\ Running /\ pc[t] = "cn2"
    /\ IF loc[t].st = "null"
       THEN /\ Fault("CancelAsync")
            /\ UNCHANGED <<blk, S, ub, pc>>
       ELSE /\ S' = [S EXCEPT !.canceled = TRUE]
            /\ blk' = GuardReleased(blk)
            /\ Touch
            /\ Goto(t, "cn3")
            /\ UNCHANGED <<crashed, g>>
    /\ UNCHANGED <<begun, hasCallback, workQ, complQ, timerArmed, globalCount,
                   loc, wk, calls>>

\* a CancelAsync that never finds a timer
HasTimerNever(s) == FALSE

\* state->timer != nullptr
HasTimer(s) == s.timer

\* if (state->timer != nullptr) SetThreadpoolTimer(state->timer, nullptr, 0, 0);
\* without a timer state->provider(AsyncOp_Cancel, ..) is entered
CancelAsync3(t) ==
    /\ UNCHANGED <<poolVars, listVars>>
    /\ Running /\ pc[t] = "cn3"
    /\ Touch
    /\ IF HasTimer(S)
       THEN /\ timerArmed' = FALSE
            /\ Goto(t, "cn4")
            /\ g' = g
       ELSE /\ timerArmed' = timerArmed
            /\ Goto(t, "cn_prov")
            /\ g' = [g EXCEPT !.cancelOps = @ + 1]
    /\ UNCHANGED <<begun, hasCallback, blk, S, workQ, complQ, globalCount,
                   loc, wk, crashed, calls>>

\* WaitForThreadpoolTimerCallbacks(state->timer, TRUE) returns;
\* if (state->timerScheduled) state->Release();
\* state->provider(AsyncOp_Cancel, ..) is entered
CancelAsync4(t) ==
    /\ UNCHANGED <<poolVars, listVars>>
    /\ Running /\ pc[t] = "cn4"
    /\ Touch
    /\ IF S.timerScheduled
       THEN /\ S' = Release(S)
            /\ globalCount' = CountAfterRelease(S, globalCount)
            /\ g' = [GDel(g, S) EXCEPT !.timerReleases = @ + 1,
                                       !.cancelOps = @ + 1]
       ELSE /\ g' = [g EXCEPT !.cancelOps = @ + 1]
            /\ UNCHANGED <<S, globalCount>>
    /\ Goto(t, "cn_prov")
    /\ UNCHANGED <<begun, hasCallback, blk, workQ, complQ, timerArmed,
                   loc, wk, crashed, calls>>

\* the provider's Cancel op returns; SignalCompletion(state);
\* CleanupState(state): state->provider(AsyncOp_Cleanup, ..) is entered
CancelAsync5(t) ==
    /\ UNCHANGED <<poolVars, listVars>>
    /\ Running /\ pc[t] = "cn_prov"
    /\ SignalCompletion(S, "CancelAsync", TRUE)
    /\ Goto(t, "cl_prov")
    /\ UNCHANGED <<begun, hasCallback, blk, workQ, timerArmed, globalCount,
                   loc, wk, crashed, calls>>

\* ---- CompleteAsync -------------------------------------------------------
\* a CompleteAsync that treats E_PENDING like every other result
IsPendingNever(result) == FALSE

\* if (result == E_PENDING) return
IsPending(result) == result = "E_PENDING"

\* called by any thread, also by the provider inside DoWork
CompleteAsync1(t, a) ==
    /\ UNCHANGED <<poolVars, listVars>>
    /\ CanCall(t) /\ ~blk.lock
    /\ Called(t)
    /\ IF IsPending(a.result)
       THEN \* E_PENDING is special: nothing is read or written
            /\ loc' = [loc EXCEPT ![t] = [Frame(t, "CompleteAsync") EXCEPT
                          !.result = a.result,
                          !.requiredBufferSize = a.requiredBufferSize]]
            /\ Goto(t, "exit")
            /\ UNCHANGED <<blk, S, ub, g>>
       ELSE
       LET priorStatus == GetStatus(blk)
           completedNow == TrySetWins(blk)
           doCleanup == a.requiredBufferSize = 0 \/ priorStatus = "E_ABORT"
           b1 == TrySetTerminalStatus(blk, a.result)
       IN  /\ blk' = IF doCleanup THEN ExtractState(b1) ELSE b1
           /\ loc' = [loc EXCEPT ![t] = [Enter(t, "CompleteAsync") EXCEPT
                          !.result = a.result,
                          !.requiredBufferSize = a.requiredBufferSize,
                          !.completedNow = completedNow,
                          !.won = completedNow,
                          !.doCleanup = doCleanup]]
           /\ g' = LET g1 == [Tried(g, blk, a.result, "CompleteAsync", t)
                                 EXCEPT !.completeSize =
                                     IF completedNow
                                     THEN a.requiredBufferSize ELSE @]
                   IN  IF ~completedNow /\ doCleanup
                       THEN CleanupOps(g1, blk.state) ELSE g1
           /\ Goto(t, IF completedNow THEN "ca2"
                      ELSE IF doCleanup THEN CleanupPc(blk.state) ELSE "exit")
           /\ TakeRef
    /\ UNCHANGED <<begun, hasCallback, workQ, complQ, timerArmed, globalCount,
                   crashed>>

\* a CompleteAsync that does not record the payload size
SetBufferSizeSkipped(s, requiredBufferSize) == s

\* state->providerData.bufferSize = requiredBufferSize
SetBufferSize(s, requiredBufferSize) ==
    [s EXCEPT !.bufferSize = requiredBufferSize]

\* state->providerData.bufferSize = requiredBufferSize;
\* SignalCompletion(state); if (doCleanup) CleanupState(state)
CompleteAsync2(t) ==
    /\ UNCHANGED <<poolVars, listVars>>
    /\ Running /\ pc[t] = "ca2"
    /\ IF loc[t].st = "null"
       THEN /\ Fault("CompleteAsync")
            /\ UNCHANGED <<S, complQ, ub, pc>>
       ELSE /\ SignalCompletion(
                   SetBufferSize(S, loc[t].requiredBufferSize),
                   "CompleteAsync", loc[t].doCleanup)
            /\ Goto(t, IF loc[t].doCleanup THEN "cl_prov" ELSE "exit")
            /\ UNCHANGED crashed
    /\ UNCHANGED <<begun, hasCallback, blk, workQ, timerArmed,
                   globalCount, loc, wk, calls>>

\* ---- GetAsyncResult ------------------------------------------------------
\* result = internal.GetStatus(); state = internal.ExtractState()
GetAsyncResult1(t, a) ==
    /\ UNCHANGED <<poolVars, listVars>>
    /\ CanCall(t) /\ t \in Clients /\ ~blk.lock
    /\ Called(t)
    /\ blk' = ExtractState(blk)
    /\ TakeRef
    /\ loc' = [loc EXCEPT ![t] = [Enter(t, "GetAsyncResult") EXCEPT
                   !.token = a.token, !.buffer = a.buffer,
                   !.bufferSize = a.bufferSize,
                   !.first = ~g.getResultCalled,
                   !.settled = (g.signals > 0 /\ ~g.lost),
                   !.retry = /\ g.retryable /\ g.cleanupOps = 0
                             /\ \A u \in Threads : loc[u].op # "GetAsyncResult"]]
    /\ g' = [g EXCEPT !.getResultCalled = TRUE]
    /\ Goto(t, "gr2")
    /\ UNCHANGED <<begun, hasCallback, workQ, complQ, timerArmed, globalCount,
                   crashed>>

GetAsyncResult2(t) ==
    /\ UNCHANGED <<poolVars, listVars>>
    /\ Running /\ pc[t] = "gr2"
    /\ LET l == loc[t]
       IN
       IF ~SUCCEEDED(l.res)
       THEN \* if (result != E_PENDING) CleanupState(state)
            /\ Goto(t, IF l.res = "E_PENDING" THEN "exit" ELSE CleanupPc(l.st))
            /\ g' = IF l.res = "E_PENDING" THEN g ELSE CleanupOps(g, l.st)
            /\ ub' = (ub \/ (l.res # "E_PENDING" /\ l.st # "null" /\ ~S.alive))
            /\ UNCHANGED <<S, loc>>
       ELSE IF l.st = "null"
       THEN /\ loc' = [loc EXCEPT ![t].res = "E_INVALIDARG"]
            /\ Goto(t, "exit")
            /\ UNCHANGED <<S, ub, g>>
       ELSE IF l.token # S.token
       THEN /\ loc' = [loc EXCEPT ![t].res = "E_INVALIDARG"]
            /\ Goto(t, "cl_prov")
            /\ g' = CleanupOps(g, l.st)
            /\ Touch
            /\ S' = S
       ELSE IF S.bufferSize = 0
       THEN /\ loc' = [loc EXCEPT ![t].res = "E_NOT_SUPPORTED"]
            /\ Goto(t, "cl_prov")
            /\ g' = CleanupOps(g, l.st)
            /\ Touch
            /\ S' = S
       ELSE IF ~l.buffer
       THEN \* return E_INVALIDARG
            /\ loc' = [loc EXCEPT ![t].res = "E_INVALIDARG", ![t].early = TRUE]
            /\ Goto(t, "exit")
            /\ Touch
            /\ UNCHANGED <<S, g>>
       ELSE IF l.bufferSize < S.bufferSize
       THEN \* return E_NOT_SUFFICIENT_BUFFER
            /\ loc' = [loc EXCEPT ![t].res = "E_NOT_SUFFICIENT_BUFFER",
                                  ![t].early = TRUE]
            /\ Goto(t, "exit")
            /\ Touch
            /\ UNCHANGED <<S, g>>
       ELSE \* state->provider(AsyncOp_GetResult, ..) returns r, which is never
            \* E_PENDING here; CleanupState(state) enters the Cleanup op
            /\ S' = [S EXCEPT !.bufferSize = l.bufferSize]
            /\ \E r \in GetResultResults :
                  loc' = [loc EXCEPT ![t].res = r,
                                     ![t].bufferUsed = S.bufferSize,
                                     ![t].provFailed = ~SUCCEEDED(r)]
            /\ g' = [CleanupOps(g, l.st) EXCEPT !.getResultOps = @ + 1]
            /\ Goto(t, "cl_prov")
            /\ Touch
    /\ UNCHANGED <<begun, hasCallback, blk, workQ, complQ, timerArmed,
                   globalCount, wk, crashed, calls>>

\* ---- ScheduleAsync -------------------------------------------------------
\* state = internal.GetState(); RETURN_HR_IF(E_INVALIDARG, state == nullptr)
ScheduleAsync1(t, delayInMs) ==
    /\ UNCHANGED <<poolVars, listVars>>
    /\ CanCall(t) /\ ~blk.lock
    /\ Called(t)
    /\ TakeRef
    /\ loc' = [loc EXCEPT ![t] = [Enter(t, "ScheduleAsync") EXCEPT
                   !.delayInMs = delayInMs,
                   !.res = IF blk.state = "null" THEN "E_INVALIDARG" ELSE @]]
    /\ Goto(t, IF blk.state = "null" THEN "exit"
               ELSE IF delayInMs # 0 THEN "sc2" ELSE "sc3")
    /\ UNCHANGED <<begun, hasCallback, blk, workQ, complQ, timerArmed,
                   globalCount, crashed, g>>

\* if (state->timer == nullptr) state->timer = CreateThreadpoolTimer(..)
ScheduleAsync2(t) ==
    /\ UNCHANGED <<poolVars, listVars>>
    /\ Running /\ pc[t] = "sc2"
    /\ S' = [S EXCEPT !.timer = TRUE]
    /\ Touch
    /\ Goto(t, "sc3")
    /\ UNCHANGED <<begun, hasCallback, blk, workQ, complQ, timerArmed,
                   globalCount, loc, wk, crashed, calls, g>>

\* a compare-exchange that never finds work scheduled
PriorScheduledNever(s) == FALSE

\* priorScheduled after
\* state->workScheduled.compare_exchange_strong(priorScheduled, true)
PriorScheduled(s) == s.workScheduled

\* state->workScheduled.compare_exchange_strong(priorScheduled, true);
\* if (priorScheduled) RETURN_HR(E_UNEXPECTED)
ScheduleAsync3(t) ==
    /\ UNCHANGED <<poolVars, listVars>>
    /\ Running /\ pc[t] = "sc3"
    /\ Touch
    /\ IF PriorScheduled(S)
       THEN /\ loc' = [loc EXCEPT ![t].res = "E_UNEXPECTED"]
            /\ Goto(t, "exit")
            /\ UNCHANGED <<S, workQ>>
       ELSE IF loc[t].delayInMs = 0
       THEN \* SubmitAsyncCallback(queue, Work, state, WorkerCallback)
            /\ S' = [S EXCEPT !.workScheduled = TRUE]
            /\ workQ' = Append(workQ, "S")
            /\ Goto(t, "sc_addref")
            /\ loc' = loc
       ELSE /\ S' = [S EXCEPT !.workScheduled = TRUE]
            /\ workQ' = workQ
            /\ Goto(t, "sc_t1")
            /\ loc' = loc
    /\ UNCHANGED <<begun, hasCallback, blk, complQ, timerArmed,
                   globalCount, wk, crashed, calls, g>>

\* the compare-exchange succeeded and SubmitAsyncCallback fails:
\* RETURN_IF_FAILED leaves ScheduleAsync with the queue's error
ScheduleAsyncSubmitFails(t) ==
    /\ UNCHANGED <<poolVars, listVars>>
    /\ Running /\ pc[t] = "sc3"
    /\ ~PriorScheduled(S) /\ loc[t].delayInMs = 0
    /\ Touch
    /\ S' = [S EXCEPT !.workScheduled = TRUE]
    /\ loc' = [loc EXCEPT ![t].res = "E_OUTOFMEMORY"]
    /\ Goto(t, "exit")
    /\ UNCHANGED <<begun, hasCallback, blk, workQ, complQ, timerArmed,
                   globalCount, wk, crashed, calls, g>>

\* state->timerScheduled = true
ScheduleAsyncTimer1(t) ==
    /\ UNCHANGED <<poolVars, listVars>>
    /\ Running /\ pc[t] = "sc_t1"
    /\ S' = [S EXCEPT !.timerScheduled = TRUE]
    /\ Touch
    /\ Goto(t, "sc_t2")
    /\ UNCHANGED <<begun, hasCallback, blk, workQ, complQ, timerArmed,
                   globalCount, loc, wk, crashed, calls, g>>

\* SetThreadpoolTimer(state->timer, &ft, 0, delayInMs)
ScheduleAsyncTimer2(t) ==
    /\ UNCHANGED <<poolVars, listVars>>
    /\ Running /\ pc[t] = "sc_t2"
    /\ timerArmed' = TRUE
    /\ Touch
    /\ Goto(t, "sc_addref")
    /\ UNCHANGED <<begun, hasCallback, blk, S, workQ, complQ, globalCount,
                   loc, wk, crashed, calls, g>>

\* state->AddRef(); return S_OK
ScheduleAsyncAddRef(t) ==
    /\ UNCHANGED <<poolVars, listVars>>
    /\ Running /\ pc[t] = "sc_addref"
    /\ S' = AddRef(S)
    /\ Touch
    /\ loc' = [loc EXCEPT ![t].res = "S_OK"]
    /\ Goto(t, "exit")
    /\ UNCHANGED <<begun, hasCallback, blk, workQ, complQ, timerArmed,
                   globalCount, wk, crashed, calls, g>>

\* ---- WorkerCallback ------------------------------------------------------
\* if (state->canceled) return;
ShortCircuit(s) == s.canceled

\* the Work channel hands its oldest record to a dispatching thread:
\* state->workScheduled = false; the canceled check;
\* state->provider(AsyncOp_DoWork, ..) is entered
WorkerCallback1(w) ==
    /\ UNCHANGED <<poolVars, listVars>>
    /\ Running /\ pc[w] = "idle"
    /\ workQ # <<>> /\ Head(workQ) = "S"
    /\ workQ' = Tail(workQ)
    /\ S' = [S EXCEPT !.workScheduled = FALSE]
    /\ Touch
    /\ IF ShortCircuit(S)
       THEN /\ Goto(w, "wk_exit")
            /\ g' = g
       ELSE /\ Goto(w, "wk_dowork")
            /\ g' = [g EXCEPT !.didWork = TRUE]
    /\ UNCHANGED <<begun, hasCallback, blk, complQ, timerArmed,
                   globalCount, loc, wk, crashed, calls>>

\* a worker that passes every DoWork result on unchanged
WorkerStatusVerbatim(result) == result

\* the status a non-pending DoWork result is turned into
WorkerStatus(result) == IF SUCCEEDED(result) THEN "E_UNEXPECTED" ELSE result

\* the provider's DoWork op returns result;
\* if (result != E_PENDING && !state->canceled)
WorkerCallback2(w) ==
    /\ UNCHANGED <<poolVars, listVars>>
    /\ Running /\ pc[w] = "wk_dowork"
    /\ \E result \in DoWorkResults :
          /\ g' = [g EXCEPT !.doWorkPending = @ \/ result = "E_PENDING"]
          /\ IF result # "E_PENDING"
             THEN /\ Touch
                  /\ IF ~S.canceled
                     THEN /\ wk' = [wk EXCEPT ![w].result = WorkerStatus(result),
                                              ![w].raw = result]
                          /\ Goto(w, "wk4")
                     ELSE /\ wk' = [wk EXCEPT ![w].result = result,
                                              ![w].raw = result]
                          /\ Goto(w, "wk_exit")
             ELSE /\ wk' = [wk EXCEPT ![w].result = result, ![w].raw = result]
                  /\ Goto(w, "wk_exit")
                  /\ ub' = ub
    /\ UNCHANGED <<begun, hasCallback, blk, S, workQ, complQ, timerArmed,
                   globalCount, loc, crashed, calls>>

\* completedNow = internal.TrySetTerminalStatus(result), under the guard
WorkerCallback3(w) ==
    /\ UNCHANGED <<poolVars, listVars>>
    /\ Running /\ pc[w] = "wk4" /\ ~blk.lock
    /\ blk' = TrySetTerminalStatus(blk, wk[w].result)
    /\ wk' = [wk EXCEPT ![w].completedNow = TrySetWins(blk),
                        ![w].pre = GetStatus(blk)]
    /\ g' = Tried(g, blk, wk[w].result, "WorkerCallback", w)
    /\ Goto(w, IF TrySetWins(blk) THEN "wk_sig" ELSE "wk_exit")
    /\ UNCHANGED <<begun, hasCallback, S, workQ, complQ, timerArmed,
                   globalCount, loc, crashed, ub, calls>>

\* if (completedNow) SignalCompletion(state)
WorkerCallback4(w) ==
    /\ UNCHANGED <<poolVars, listVars>>
    /\ Running /\ pc[w] = "wk_sig"
    /\ SignalCompletion(S, "WorkerCallback", FALSE)
    /\ Goto(w, "wk_exit")
    /\ UNCHANGED <<begun, hasCallback, blk, workQ, timerArmed, globalCount,
                   loc, wk, crashed, calls>>

\* ~AsyncStateRef of the attached reference
WorkerCallback5(w) ==
    /\ UNCHANGED <<poolVars, listVars>>
    /\ Running /\ pc[w] = "wk_exit"
    /\ S' = Release(S)
    /\ globalCount' = CountAfterRelease(S, globalCount)
    /\ g' = GDel(g, S)
    /\ Touch
    /\ wk' = [wk EXCEPT ![w] = NoWk]
    /\ Goto(w, "idle")
    /\ UNCHANGED <<begun, hasCallback, blk, workQ, complQ, timerArmed, loc,
                   crashed, calls>>

\* ---- TimerCallback -------------------------------------------------------
\* a TimerCallback that does not look at the canceled flag
TimerCanceledNever(s) == FALSE

\* TimerCallback: if (state->canceled) return
TimerCanceled(s) == s.canceled

\* the timer fires: state->timerScheduled = false;
\* if (state->canceled) return (the attached reference is released);
\* else SubmitAsyncCallback(.., Work, ..) hands the reference to the callback
TimerCallback ==
    /\ UNCHANGED <<poolVars, listVars>>
    /\ Running
    /\ timerArmed
    /\ timerArmed' = FALSE
    /\ Touch
    /\ LET s1 == [S EXCEPT !.timerScheduled = FALSE]
       IN  IF TimerCanceled(S)
           THEN /\ S' = Release(s1)
                /\ globalCount' = CountAfterRelease(s1, globalCount)
                /\ g' = [GDel(g, s1) EXCEPT !.timerReleases = @ + 1]
                /\ workQ' = workQ
           ELSE /\ S' = s1
                /\ workQ' = Append(workQ, "S")
                /\ UNCHANGED <<globalCount, g>>
    /\ UNCHANGED <<begun, hasCallback, blk, complQ, pc, loc, wk, crashed,
                   calls>>

\* ---- CompletionCallbackForAsyncState -------------------------------------
\* the Completion channel hands its oldest record to the draining thread:
\* asyncBlock->callback(asyncBlock) runs, SignalWait sets the wait event and
\* the attached reference is released
CompletionCallbackForAsyncState ==
    /\ UNCHANGED <<poolVars, listVars>>
    /\ Running
    /\ complQ # <<>>
    /\ complQ' = Tail(complQ)
    /\ Touch
    /\ LET s1 == [S EXCEPT !.waitEvent = TRUE]
       IN  /\ S' = Release(s1)
           /\ globalCount' = CountAfterRelease(s1, globalCount)
           /\ g' = [GDel(g, s1) EXCEPT
                        !.callbacks = IF hasCallback THEN @ + 1 ELSE @]
    /\ UNCHANGED <<begun, hasCallback, blk, workQ, timerArmed, pc, loc, wk,
                   crashed, calls>>

\* after a deleted AsyncState was touched the process may fault at any time
UBFault ==
    /\ UNCHANGED <<poolVars, listVars>>
    /\ Running /\ ub
    /\ Fault("ub")
    /\ UNCHANGED <<begun, hasCallback, blk, S, workQ, complQ, timerArmed,
                   globalCount, pc, loc, wk, ub, calls>>

\* ---- specification ---------------------------------------------------------
ApiStep(t) ==
    \/ BeginAsyncAgain(t)
    \/ \E wait \in BOOLEAN : GetAsyncStatus1(t, wait)
    \/ GetAsyncStatus2(t)
    \/ GetAsyncResultSize(t)
    \/ CancelAsync1(t) \/ CancelAsync2(t) \/ CancelAsync3(t)
    \/ CancelAsync4(t) \/ CancelAsync5(t)
    \/ \E a \in CompleteArgs : CompleteAsync1(t, a)
    \/ CompleteAsync2(t)
    \/ CleanupState(t)
    \/ \E a \in GetResultArgs : GetAsyncResult1(t, a)
    \/ GetAsyncResult2(t)
    \/ \E d \in Delays : ScheduleAsync1(t, d)
    \/ ScheduleAsync2(t) \/ ScheduleAsync3(t)
    \/ ScheduleAsyncTimer1(t)
    \/ ScheduleAsyncTimer2(t) \/ ScheduleAsyncAddRef(t)
    \/ Exit(t)

WorkerStep(w) ==
    \/ WorkerCallback1(w) \/ WorkerCallback2(w)
    \/ WorkerCallback3(w) \/ WorkerCallback4(w) \/ WorkerCallback5(w)

Next ==
    \/ \E sched \in BeginSchedules : BeginAsync(sched)
    \/ BeginAsyncAllocFails
    \/ \E t \in Threads : ApiStep(t)
    \/ \E w \in Workers : WorkerStep(w)
    \/ TimerCallback
    \/ CompletionCallbackForAsyncState
    \/ UBFault

Spec == Init /\ [][Next]_vars

TypeOK ==
    /\ blk.status \in HResults
    /\ blk.state \in {"null", "S"}
    /\ S.refs \in Int
    /\ globalCount \in Int

\* ---- scheduling with a queue that can refuse a callback ----------------------
\* BeginAsync, ScheduleAsync by the client and by the provider inside DoWork,
\* the worker and the timer, with SubmitAsyncCallback free to fail
SubmitFailNext ==
    \/ \E sched \in BeginSchedules : BeginAsync(sched)
    \/ \E t \in Threads :
          \/ \E d \in Delays : ScheduleAsync1(t, d)
          \/ ScheduleAsync2(t) \/ ScheduleAsync3(t)
          \/ ScheduleAsyncSubmitFails(t)
          \/ ScheduleAsyncTimer1(t)
          \/ ScheduleAsyncTimer2(t) \/ ScheduleAsyncAddRef(t)
          \/ Exit(t)
    \/ \E w \in Workers : WorkerStep(w)
    \/ TimerCallback

SubmitFailSpec == Init /\ [][SubmitFailNext]_vars

\* ---- reaping on a queue shared with other calls ----------------------------
\* contexts of the callbacks in a channel: the AsyncState of this call and
\* the AsyncState of another call on the same queue
Contexts == {"S", "T"}

\* records of this call in channel q
OwnCallbacks(q) == Cardinality({i \in 1..Len(q) : q[i] = "S"})

\* contents of a channel: any number of callbacks of the other call and at
\* most one of this call (workScheduled admits one Work callback at a time,
\* completion is signaled once)
Channels ==
    {q \in UNION {[1..n -> Contexts] : n \in 0..MaxQueued} :
        OwnCallbacks(q) <= 1}

\* CompleteAsync(block, S_OK, 0) has won, taken the state out of the block
\* and signaled completion; it is inside CleanupState, in the provider's
\* Cleanup op.  The state is referenced by the block's reference (now the
\* reaper's to release), by the reaper's AsyncStateRef and by every queued
\* callback of the call.
CleanupInit ==
    /\ pool = NewThreadPool /\ pth = NewPoolThreads /\ ph = NoPoolHistory
    /\ list = <<>> /\ push = NewPushThreads /\ pop = NewPopThreads
    /\ slots = NewSlots
    /\ begun = TRUE
    /\ hasCallback \in BOOLEAN
    /\ blk = [state |-> "null", status |-> "S_OK", lock |-> FALSE]
    /\ workQ \in Channels
    /\ complQ \in Channels
    /\ hasCallback \/ OwnCallbacks(complQ) = 0
    /\ S = [NewAsyncState EXCEPT
               !.refs = 2 + OwnCallbacks(workQ) + OwnCallbacks(complQ),
               !.workScheduled = (OwnCallbacks(workQ) = 1),
               !.waitEvent = ~hasCallback]
    /\ timerArmed = FALSE
    /\ globalCount = 1
    /\ pc = [t \in Threads |-> IF t \in Clients THEN "cl_prov" ELSE "idle"]
    /\ loc = [t \in Threads |->
                IF t \in Clients
                THEN [NoLoc EXCEPT !.op = "CompleteAsync", !.st = "S",
                                   !.completedNow = TRUE, !.won = TRUE,
                                   !.doCleanup = TRUE]
                ELSE NoLoc]
    /\ wk = [w \in Workers |-> NoWk]
    /\ crashed = FALSE
    /\ ub = FALSE
    /\ calls = [client |-> 1, provider |-> 0]
    /\ g = [NoGhost EXCEPT !.signals = 1, !.signalBy = "CompleteAsync",
                           !.cleanupOps = 1, !.firstTerminal = "S_OK",
                           !.wonBy = "CompleteAsync", !.wins = 1]

CleanupNext == \E t \in Clients : CleanupState(t) \/ Exit(t)

CleanupSpec == CleanupInit /\ [][CleanupNext]_vars

\* ---- thread pool: worker loop ------------------------------------------------
\* m_wake.notify_all(): every thread blocked in m_wake.wait is woken
WakeAll(p) ==
    [t \in PoolThreads |->
        IF p[t].pc = "waiting" THEN [p[t] EXCEPT !.pc = "woken"] ELSE p[t]]

\* m_active.notify_all()
WakeActive(p) ==
    [t \in PoolThreads |->
        IF p[t].pc = "t_waiting" THEN [p[t] EXCEPT !.pc = "t_woken"] ELSE p[t]]

\* a worker that invokes the callback without a reference of its own
AddRefPoolSkipped(p) == p

\* AddRef(): m_refs++
AddRefPool(p) == [p EXCEPT !.m_refs = @ + 1]

\* --m_refs == 0 deletes the object
ReleasePool(p) ==
    [p EXCEPT !.m_refs = @ - 1, !.deleted = (p.m_refs - 1 = 0)]

\* ActionCompleteImpl::operator(): Invoked = true; m_activeCalls--;
\* m_active.notify_all()
ActionCompleteImpl(p) == [p EXCEPT !.m_activeCalls = @ - 1]

\* std::unique_lock<std::mutex> lock(m_wakeLock); m_wake.wait(lock): the
\* thread takes the mutex and gives it up again as it blocks
WorkerStart(w) ==
    /\ UNCHANGED <<asyncVars, listVars>>
    /\ pth[w].pc = "start" /\ pool.m_wakeLock = {}
    /\ pth' = [pth EXCEPT ![w].pc = "waiting"]
    /\ UNCHANGED <<pool, ph>>

\* m_wake.wait may return without a notification
WorkerSpuriousWake(w) ==
    /\ UNCHANGED <<asyncVars, listVars>>
    /\ w \in PoolWorkers /\ pth[w].pc = "waiting"
    /\ pth' = [pth EXCEPT ![w].pc = "woken"]
    /\ UNCHANGED <<pool, ph>>

\* m_wake.wait returns with the mutex held; if (m_terminate) break;
\* if (m_calls != 0) { m_calls--; lock.unlock(); AddRef(); m_callback(..) }
\* otherwise the thread is about to wait again
WorkerWake(w) ==
    /\ UNCHANGED <<asyncVars, listVars>>
    /\ w \in PoolWorkers /\ pth[w].pc = "woken" /\ pool.m_wakeLock = {}
    /\ IF pool.m_terminate
       THEN /\ pth' = [pth EXCEPT ![w].pc = "exited"]
            /\ UNCHANGED <<pool, ph>>
       ELSE IF pool.m_calls # 0
       THEN /\ pool' = AddRefPool([pool EXCEPT !.m_calls = @ - 1])
            /\ pth' = [pth EXCEPT ![w].pc = "callback", ![w].Invoked = FALSE]
            /\ ph' = [ph EXCEPT !.invoked = @ + 1]
       ELSE /\ pool' = [pool EXCEPT !.m_wakeLock = {w}]
            /\ pth' = [pth EXCEPT ![w].pc = "rewait"]
            /\ ph' = ph

\* back at the top of the loop: m_wake.wait(lock) gives the mutex up and blocks
WorkerWait(w) ==
    /\ UNCHANGED <<asyncVars, listVars>>
    /\ w \in PoolWorkers /\ pth[w].pc = "rewait"
    /\ pool' = [pool EXCEPT !.m_wakeLock = {}]
    /\ pth' = [pth EXCEPT ![w].pc = "waiting"]
    /\ ph' = ph

\* the callback invokes the ActionComplete it was given (an optional call)
ActionComplete(w) ==
    /\ UNCHANGED <<asyncVars, listVars>>
    /\ w \in PoolWorkers /\ pth[w].pc = "callback" /\ ~pth[w].Invoked
    /\ pool' = ActionCompleteImpl(pool)
    /\ pth' = WakeActive([pth EXCEPT ![w].Invoked = TRUE])
    /\ ph' = [ph EXCEPT !.completed = @ + 1]

\* m_callback returns
CallbackReturns(w) ==
    /\ UNCHANGED <<asyncVars, listVars>>
    /\ w \in PoolWorkers /\ pth[w].pc = "callback"
    /\ pth' = [pth EXCEPT ![w].pc = "relock"]
    /\ UNCHANGED <<pool, ph>>

\* lock.lock(); if (!ac.Invoked) ac();
\* if (m_terminate) { lock.unlock(); Release(); break; } else Release();
WorkerAfter(w) ==
    /\ UNCHANGED <<asyncVars, listVars>>
    /\ w \in PoolWorkers /\ pth[w].pc = "relock" /\ pool.m_wakeLock = {}
    /\ LET p1 == IF pth[w].Invoked THEN pool ELSE ActionCompleteImpl(pool)
           t1 == IF pth[w].Invoked THEN pth
                 ELSE WakeActive([pth EXCEPT ![w].Invoked = TRUE])
       IN  /\ ph' = IF pth[w].Invoked THEN ph
                    ELSE [ph EXCEPT !.completed = @ + 1]
           /\ IF pool.m_terminate
              THEN /\ pool' = ReleasePool(p1)
                   /\ pth' = [t1 EXCEPT ![w].pc = "exited"]
              ELSE /\ pool' = [ReleasePool(p1) EXCEPT !.m_wakeLock = {w}]
                   /\ pth' = [t1 EXCEPT ![w].pc = "rewait"]

\* ---- thread pool: Submit ------------------------------------------------------
\* ThreadPool::Submit dereferences m_impl, which ThreadPool::Terminate
\* releases and sets to nullptr: the user does not call Submit once
\* Terminate was called.
\* m_calls++
Submit1 ==
    /\ UNCHANGED <<asyncVars, listVars>>
    /\ pth[0].pc = "idle" /\ ~pool.m_terminate
    /\ ph.submits < MaxSubmits
    /\ pool' = [pool EXCEPT !.m_calls = @ + 1]
    /\ pth' = [pth EXCEPT ![0].pc = "s2"]
    /\ ph' = [ph EXCEPT !.submits = @ + 1]

\* m_activeCalls++
Submit2 ==
    /\ UNCHANGED <<asyncVars, listVars>>
    /\ pth[0].pc = "s2"
    /\ pool' = [pool EXCEPT !.m_activeCalls = @ + 1]
    /\ pth' = [pth EXCEPT ![0].pc = "s3"]
    /\ ph' = ph

\* m_wake.notify_all()
Submit3 ==
    /\ UNCHANGED <<asyncVars, listVars>>
    /\ pth[0].pc = "s3"
    /\ pth' = [WakeAll(pth) EXCEPT ![0].pc = "idle"]
    /\ UNCHANGED <<pool, ph>>

\* ---- thread pool: Terminate ---------------------------------------------------
\* a wait loop that does not look at m_activeCalls
ActiveDrainedAlways(p) == TRUE

\* the wait loop of Terminate ends: !(m_activeCalls != 0)
ActiveDrained(p) == p.m_activeCalls = 0

\* Terminate, called by the user or by a worker from inside the callback,
\* once: std::unique_lock lock(m_activeLock); m_terminate = true;
\* m_wake.notify_all()
Terminate1(t) ==
    /\ UNCHANGED <<asyncVars, listVars>>
    /\ \/ t = 0
       \/ t \in PoolWorkers /\ pth[t].pc = "callback"
    /\ pth[0].pc = "idle"
    /\ ~pool.m_terminate /\ pool.m_activeLock = {}
    /\ pool' = [pool EXCEPT !.m_terminate = TRUE, !.m_activeLock = {t}]
    /\ pth' = [WakeAll(pth) EXCEPT ![t].pc = "t_check", ![t].ret = pth[t].pc]
    /\ ph' = [ph EXCEPT !.caller = {t}]

\* while (m_activeCalls != 0): the loop ends (lock.unlock()) or the thread is
\* about to wait on m_active
Terminate2(t) ==
    /\ UNCHANGED <<asyncVars, listVars>>
    /\ pth[t].pc = "t_check"
    /\ IF ActiveDrained(pool)
       THEN /\ pool' = [pool EXCEPT !.m_activeLock = {}]
            /\ pth' = [pth EXCEPT ![t].pc = "t_join"]
       ELSE /\ pool' = pool
            /\ pth' = [pth EXCEPT ![t].pc = "t_enter"]
    /\ ph' = ph

\* m_active.wait(lock) gives the mutex up and blocks
Terminate3(t) ==
    /\ UNCHANGED <<asyncVars, listVars>>
    /\ pth[t].pc = "t_enter"
    /\ pool' = [pool EXCEPT !.m_activeLock = {}]
    /\ pth' = [pth EXCEPT ![t].pc = "t_waiting"]
    /\ ph' = ph

\* m_active.wait may return without a notification
TerminateSpuriousWake(t) ==
    /\ UNCHANGED <<asyncVars, listVars>>
    /\ pth[t].pc = "t_waiting"
    /\ pth' = [pth EXCEPT ![t].pc = "t_woken"]
    /\ UNCHANGED <<pool, ph>>

\* m_active.wait returns with the mutex held
Terminate4(t) ==
    /\ UNCHANGED <<asyncVars, listVars>>
    /\ pth[t].pc = "t_woken" /\ pool.m_activeLock = {}
    /\ pool' = [pool EXCEPT !.m_activeLock = {t}]
    /\ pth' = [pth EXCEPT ![t].pc = "t_check"]
    /\ ph' = ph

\* for (auto &t : m_pool): detach the caller's own thread, join every other
\* (join returns when that thread has exited); m_pool.clear(); back in
\* ThreadPool::Terminate: m_impl->Release(); m_impl = nullptr
Terminate5(t) ==
    /\ UNCHANGED <<asyncVars, listVars>>
    /\ pth[t].pc = "t_join"
    /\ \A w \in pool.m_pool \ {t} : pth[w].pc = "exited"
    /\ pool' = [ReleasePool(pool) EXCEPT !.m_pool = {}]
    /\ pth' = [pth EXCEPT ![t].pc = pth[t].ret]
    /\ ph' = [ph EXCEPT !.returned = TRUE]

PoolInit ==
    /\ Init
    /\ hasCallback = FALSE

PoolNext ==
    \/ \E w \in PoolWorkers :
          \/ WorkerStart(w) \/ WorkerSpuriousWake(w) \/ WorkerWake(w)
          \/ WorkerWait(w) \/ ActionComplete(w) \/ CallbackReturns(w)
          \/ WorkerAfter(w)
    \/ Submit1 \/ Submit2 \/ Submit3
    \/ \E t \in PoolThreads :
          \/ Terminate1(t) \/ Terminate2(t) \/ Terminate3(t)
          \/ TerminateSpuriousWake(t) \/ Terminate4(t) \/ Terminate5(t)

PoolSpec == PoolInit /\ [][PoolNext]_vars

\* ---- the lockless list and its stress test -------------------------------------
\* list.push_back(node): the node becomes the newest of the list; true
LocklessPushBack(l, node) == Append(l, node)

\* a pop_front that hands out the oldest node and leaves it in the list
LocklessPopFrontKeeps(l) == l

\* list.pop_front(): the oldest node leaves the list; nullptr when it is empty
LocklessPopFront(l) == Tail(l)

\* *node = callIndex + (threadIndex * callsPerThread)
NodeValue(threadIndex, callIndex) == callIndex + (threadIndex * callsPerThread)

\* one round of a push thread's loop: the node is made, its slot is looked
\* at (VERIFY_FAIL if already true) and it is pushed (VERIFY_FAIL if
\* push_back returns false, which this list never does)
PushThread(t) ==
    /\ UNCHANGED <<asyncVars, poolVars>>
    /\ push[t].pc = "run"
    /\ LET node == NodeValue(t, push[t].callIndex)
       IN  /\ slots' = [slots EXCEPT !.fail = @ \/ node \in slots.set]
           /\ list' = LocklessPushBack(list, node)
    /\ push' = [push EXCEPT
                  ![t].callIndex = @ + 1,
                  ![t].pc = IF push[t].callIndex + 1 = callsPerThread
                            THEN "done" ELSE "run"]
    /\ pop' = pop

\* node = list.pop_front(); the thread ends when it gets nullptr
PopThread1(t) ==
    /\ UNCHANGED <<asyncVars, poolVars>>
    /\ pop[t].pc = "run"
    /\ IF list = <<>>
       THEN /\ pop' = [pop EXCEPT ![t].pc = "done"]
            /\ list' = list
       ELSE /\ pop' = [pop EXCEPT ![t].pc = "got", ![t].node = {Head(list)}]
            /\ list' = LocklessPopFront(list)
    /\ UNCHANGED <<push, slots>>

\* if (slotsPtr[*node]) VERIFY_FAIL(); slotsPtr[*node] = true; delete node
PopThread2(t) ==
    /\ UNCHANGED <<asyncVars, poolVars>>
    /\ pop[t].pc = "got"
    /\ slots' = [set |-> slots.set \cup pop[t].node,
                 fail |-> slots.fail \/ pop[t].node \subseteq slots.set]
    /\ pop' = [pop EXCEPT ![t].pc = "run", ![t].node = {}]
    /\ UNCHANGED <<list, push>>

ListNext ==
    \/ \E t \in PushThreads : PushThread(t)
    \/ \E t \in PopThreads : PopThread1(t) \/ PopThread2(t)

ListInit ==
    /\ Init
    /\ hasCallback = FALSE

ListSpec == ListInit /\ [][ListNext]_vars

\* ---- properties ------------------------------------------------------------
\* no thread is inside a call or a callback, no callback is queued and the
\* timer is not set
Quiescent ==
    /\ \A t \in Threads : pc[t] = "idle"
    /\ workQ = <<>> /\ complQ = <<>> /\ ~timerArmed

\* worker w is inside the provider's DoWork op (also while the provider makes
\* an API call from there)
InDoWork(w) == pc[w] = "wk_dowork" \/ loc[w].ret = "wk_dowork"

\* C1: on a block with a completion callback the user's callback is invoked
\* at most once and the completion callback is submitted at most once, by the
\* operation that won TrySetTerminalStatus, however the worker's DoWork
\* return, CompleteAsync calls and CancelAsync calls interleave.
CallbackAtMostOnce ==
    hasCallback =>
        /\ g.callbacks <= 1
        /\ g.complSubmits <= 1
        /\ g.complSubmits = 1 => g.signalBy = g.wonBy

\* the callback has run and another attempt to set the status has lost
CallbackOnceWitness ==
    hasCallback /\ g.callbacks = 1 /\ g.lost

\* C2: the terminal status is write-once: it is the value of the first
\* successful TrySetTerminalStatus, no later attempt succeeds or changes it,
\* and every GetAsyncStatus begun after that write returns that value.
StatusWriteOnce ==
    /\ g.wins <= 1
    /\ g.firstTerminal # "none" => blk.status = g.firstTerminal
    /\ \A t \in Clients :
          pc[t] = "exit" /\ loc[t].op = "GetAsyncStatus" /\ loc[t].afterTerm
              => loc[t].res = g.firstTerminal

\* a GetAsyncStatus begun after the first write returns, after a later
\* attempt to set the status has lost
StatusWriteOnceWitness ==
    \E t \in Clients :
        /\ pc[t] = "exit" /\ loc[t].op = "GetAsyncStatus" /\ loc[t].afterTerm
        /\ g.lost

\* C3: while the status of a begun block is Pending its state pointer is
\* non-null.
PendingHasState ==
    begun /\ blk.status = "E_PENDING" => blk.state # "null"

\* C4: after a GetAsyncResult on a call completed with Success and a payload
\* failed for a null or too small buffer, a following GetAsyncResult with the
\* same token and a non-null buffer of at least the payload size returns
\* Success (unless the provider's GetResult op itself fails).
RetrySucceeds ==
    \A t \in Clients :
        /\ pc[t] = "exit" /\ loc[t].op = "GetAsyncResult" /\ loc[t].retry
        /\ loc[t].token = "A" /\ loc[t].buffer
        /\ loc[t].bufferSize >= g.completeSize
        => loc[t].res = "S_OK" \/ loc[t].provFailed

\* C5: once a GetAsyncResult or CancelAsync has returned and the queued
\* callbacks are drained or removed, s_AsyncLibGlobalStateCount is back at its
\* value before BeginAsync and the state was destroyed exactly once.
CountRestored ==
    g.reaperReturned /\ Quiescent /\ ~crashed
        => globalCount = 0 /\ g.deletes = 1

\* C6: a CancelAsync that found the status Pending makes it E_ABORT, invokes
\* the provider's Cancel op exactly once and signals completion exactly once:
\* by submitting the completion callback when the block has a callback, by
\* signaling the wait event otherwise.
CancelEffects ==
    \A t \in Clients :
        /\ loc[t].op = "CancelAsync" /\ loc[t].won
        /\ pc[t] = "exit" \/ (crashed /\ g.faultIn = "CancelAsync")
        => /\ blk.status = "E_ABORT"
           /\ g.cancelOps = 1
           /\ g.signals = 1
           /\ IF hasCallback
              THEN g.complSubmits = 1 /\ g.waitSignals = 0
              ELSE g.complSubmits = 0 /\ g.waitSignals = 1

\* C7: when CancelAsync wins while the delay timer of ScheduleAsync is set
\* and has not fired, DoWork is never invoked, GetAsyncStatus(wait = true)
\* returns E_ABORT, and the reference held for the timer is released exactly
\* once: after CancelAsync returned and the callbacks are drained the state
\* has no reference left and was destroyed once.
CancelBeforeFire ==
    g.cancelBeforeFire =>
        /\ ~g.didWork
        /\ g.timerReleases <= 1
        /\ \A t \in Clients :
              /\ pc[t] = "exit" /\ loc[t].op = "GetAsyncStatus" /\ loc[t].wait
              => loc[t].res = "E_ABORT"
        /\ g.reaperReturned /\ Quiescent /\ ~crashed
              => S.refs = 0 /\ g.deletes = 1

\* C8: while a thread is inside the provider's Cancel op or Cleanup op, no
\* worker thread is inside the provider's DoWork op for the same state.
NoOverlap ==
    \A t \in Threads :
        pc[t] \in {"cn_prov", "cl_prov"}
            => \A w \in Workers \ {t} : ~InDoWork(w)

\* C9: when DoWork returns r and the status is still Pending, r = E_PENDING
\* leaves the status alone and signals nothing, a success r makes the status
\* E_UNEXPECTED, a failure r becomes the status verbatim, and in these two
\* cases the worker signals completion, exactly once; when the status was
\* already set (by CompleteAsync or CancelAsync) it stays what it was.
WorkerMapping ==
    \A w \in Workers :
        pc[w] = "wk_exit" /\ wk[w].raw # "none" =>
            /\ wk[w].raw = "E_PENDING" =>
                  ~wk[w].completedNow /\ wk[w].pre = "none"
            /\ wk[w].pre = "E_PENDING" =>
                  /\ wk[w].completedNow
                  /\ blk.status = IF wk[w].raw \in {"S_OK", "S_FALSE"}
                                  THEN "E_UNEXPECTED" ELSE wk[w].raw
                  /\ g.signals = 1 /\ g.signalBy = "WorkerCallback"
            /\ wk[w].pre \notin {"none", "E_PENDING"} =>
                  /\ ~wk[w].completedNow
                  /\ blk.status = wk[w].pre
                  /\ g.signals <= 1
            /\ g.wonBy = "CompleteAsync" => blk.status = g.firstTerminal

\* DoWork returned S_OK on a Pending call: the status became E_UNEXPECTED
WorkerMappingWitness ==
    \E w \in Workers :
        /\ pc[w] = "wk_exit" /\ wk[w].raw = "S_OK" /\ wk[w].completedNow
        /\ blk.status = "E_UNEXPECTED" /\ g.signals = 1

\* C10: for a call whose DoWork returned E_PENDING and which another thread
\* completed with CompleteAsync(S_OK, 0), GetAsyncStatus(wait = true) returns
\* S_OK and the first GetAsyncResult with the matching token returns
\* E_NOT_SUPPORTED.
NoPayloadNotSupported ==
    \A t \in Clients :
        /\ pc[t] = "exit" /\ loc[t].afterTerm
        /\ g.wonAfterPending /\ g.wonBy = "CompleteAsync"
        /\ g.wonThread \in Clients
        /\ g.firstTerminal = "S_OK" /\ g.completeSize = 0
        => /\ loc[t].op = "GetAsyncStatus" /\ loc[t].wait => loc[t].res = "S_OK"
           /\ loc[t].op = "GetAsyncResult" /\ loc[t].token = "A" /\ loc[t].first
                 => loc[t].res = "E_NOT_SUPPORTED"

\* C11: a GetAsyncResult that returns E_INVALIDARG because its token is not
\* the one given to BeginAsync does not reap the call: when it returns the
\* state is still attached to the block and the provider's Cleanup op has not
\* run (so that a later GetAsyncResult with the right token can succeed).
MismatchDoesNotReap ==
    \A t \in Clients :
        /\ pc[t] = "exit" /\ loc[t].op = "GetAsyncResult"
        /\ loc[t].token = "B" /\ loc[t].st # "null"
        /\ loc[t].res = "E_INVALIDARG"
        => blk.state = "S" /\ g.cleanupOps = 0

\* C12: on a block with a completion callback a GetAsyncStatus(wait = true)
\* that returns a terminal status returns after the user's callback was
\* invoked, whichever operation terminated the call.
WaitReturnsAfterCallback ==
    hasCallback =>
        \A t \in Clients :
            /\ pc[t] = "exit" /\ loc[t].op = "GetAsyncStatus" /\ loc[t].wait
            /\ loc[t].res \notin {"E_PENDING", "E_INVALIDARG"}
            => g.callbacks >= 1

BusyBlockRejected ==
    [][\A t \in Clients :
          /\ loc[t].op # "BeginAsync" /\ loc'[t].op = "BeginAsync"
          /\ blk.state # "null" \/ blk.status # "S_OK" \/ blk.lock
          => /\ pc'[t] = "exit" /\ loc'[t].res = "E_INVALIDARG"
             /\ blk' = blk /\ S' = S /\ globalCount' = globalCount
             /\ workQ' = workQ /\ complQ' = complQ]_vars

\* BeginAsync was refused on the block of a call that is still Pending
BusyBlockRejectedWitness ==
    \E t \in Clients :
        /\ pc[t] = "exit" /\ loc[t].op = "BeginAsync"
        /\ loc[t].res = "E_INVALIDARG"
        /\ blk.state = "S" /\ blk.status = "E_PENDING"

\* C15: when the allocation of the AsyncState fails in BeginAsync on a block
\* with a queue and a completion callback, the block's status is the
\* failure, the completion callback is submitted once and BeginAsync
\* finishes without faulting on the null state.
AllocFailureCompletes ==
    hasCallback /\ blk.status = "E_OUTOFMEMORY"
        => /\ Len(complQ) = 1
           /\ ~(crashed /\ g.faultIn = "BeginAsync")

\* C19: on a block with a completion callback, once the status is terminal
\* and nothing is left to run (every thread is idle, the channels are
\* drained and the timer is not set, or the process has stopped), the user's
\* callback has been invoked, once, and the wait event is set.
CallbackEventually ==
    /\ hasCallback /\ g.firstTerminal # "none"
    /\ crashed \/ Quiescent
    => g.callbacks = 1 /\ S.waitEvent

\* C20: at most one piece of work is scheduled at a time (a queued Work
\* callback or the set timer), and a ScheduleAsync that finds workScheduled
\* already true returns E_UNEXPECTED without enqueuing a Work callback,
\* setting the timer or adding a state reference.
RescheduleRejected ==
    /\ [](Len(workQ) + (IF timerArmed THEN 1 ELSE 0) <= 1)
    /\ [][\A t \in Threads :
             /\ pc[t] = "sc3" /\ pc'[t] # "sc3" /\ S.workScheduled
             => /\ pc'[t] = "exit" /\ loc'[t].res = "E_UNEXPECTED"
                /\ workQ' = workQ /\ timerArmed' = timerArmed
                /\ S'.refs = S.refs]_vars

\* a ScheduleAsync returned E_UNEXPECTED while a Work callback was queued
RescheduleRejectedWitness ==
    \E t \in Threads :
        /\ pc[t] = "exit" /\ loc[t].op = "ScheduleAsync"
        /\ loc[t].res = "E_UNEXPECTED"
        /\ Len(workQ) = 1

\* ---- properties of the thread pool ----------------------------------------------
\* nothing is running in the pool: its user is between calls, Terminate was
\* not called and every worker is blocked in m_wake.wait
PoolQuiet ==
    /\ ~pool.m_terminate /\ pth[0].pc = "idle"
    /\ \A w \in PoolWorkers : pth[w].pc = "waiting"

\* C16: every Submit is followed by its own invocation of the callback: when
\* Terminate was not called and the pool has come to rest, with every worker
\* blocked in its wait and nothing left that would wake one, the callback
\* has been invoked once for every Submit.
SubmitsServed ==
    PoolQuiet => ph.invoked = ph.submits

\* C17: when Terminate has returned, m_activeCalls is 0, every submitted call
\* was action-completed and every worker thread other than the caller has
\* exited; and no invocation of the callback begins after Terminate returned.
TerminateDrains ==
    /\ [](ph.returned =>
             /\ pool.m_activeCalls = 0
             /\ ph.completed = ph.submits
             /\ \A w \in PoolWorkers \ ph.caller : pth[w].pc = "exited")
    /\ [][ph.returned => ph.invoked' = ph.invoked]_vars

\* Terminate, called by the user, has returned after every submitted call ran
TerminateDrainsWitness ==
    /\ ph.returned /\ ph.caller = {0}
    /\ ph.submits = MaxSubmits /\ ph.invoked = MaxSubmits

FailedGetResultKeepsState ==
    \A t \in Clients :
        /\ loc[t].op = "GetAsyncResult" /\ loc[t].provFailed
        /\ loc[t].first /\ loc[t].settled
        => g.cleanupOps = 0 /\ blk.state = "S"

\* C22: once completion has been signaled for the call the worker does not
\* take the block's lock (and so neither reads nor writes its status).
NoBlockAccessAfterSignal ==
    [][\A w \in Workers :
          pc[w] = "wk4" /\ pc'[w] # "wk4" => g.signals = 0]_vars

\* something still holds a pointer to the AsyncState: a queued Work or
\* completion callback, the armed timer, a running WorkerCallback or an API
\* call in progress
StateHeld ==
    \/ \E i \in 1..Len(workQ) : workQ[i] = "S"
    \/ \E i \in 1..Len(complQ) : complQ[i] = "S"
    \/ timerArmed
    \/ \E w \in Workers : pc[w] # "idle"
    \/ \E t \in Threads : pc[t] # "idle" /\ loc[t].st = "S"

\* C24: the AsyncState is not destroyed while a queued or running Work
\* callback, the armed timer, a queued completion callback or an API call in
\* progress holds a pointer to it (GetAsyncResult left aside).
StateOutlivesHolders ==
    begun /\ ~g.getResultCalled /\ StateHeld => S.alive

\* C25: after the provider's Cleanup op was invoked for the state, neither
\* DoWork nor Cancel nor GetResult is invoked for it.
NoOpAfterCleanup ==
    [][g.cleanupOps > 0 =>
          /\ \A w \in Workers : pc[w] = "idle" => pc'[w] # "wk_dowork"
          /\ g'.cancelOps = g.cancelOps
          /\ g'.getResultOps = g.getResultOps]_vars

\* C26: a GetAsyncResult that read the status Pending leaves the state
\* attached to the block for as long as the status stays Pending.
PendingResultUntouched ==
    \A t \in Clients :
        /\ pc[t] \in {"gr2", "exit"} /\ loc[t].op = "GetAsyncResult"
        /\ loc[t].res = "E_PENDING" /\ loc[t].first
        /\ blk.status = "E_PENDING"
        => blk.state = "S"

\* a provider op is invoked, the user's completion callback runs or a
\* callback is submitted to the queue in this step
CallsOut ==
    \/ g'.cancelOps # g.cancelOps \/ g'.cleanupOps # g.cleanupOps
    \/ g'.getResultOps # g.getResultOps \/ g'.callbacks # g.callbacks
    \/ \E w \in Workers : pc[w] = "idle" /\ pc'[w] = "wk_dowork"
    \/ Len(workQ') > Len(workQ) \/ Len(complQ') > Len(complQ)

\* C23: the block's lock is held only by a thread inside a guarded section
\* (one thread at a time), and the thread that holds it does not invoke a
\* provider op, run the completion callback or submit a callback: such a
\* step is always taken by a thread that does not hold the lock.
LockNotHeldAcrossCalls ==
    /\ [](blk.lock => Cardinality({t \in Threads : pc[t] = "cn2"}) = 1)
    /\ [][CallsOut => \A t \in Threads : pc[t] = "cn2" => pc'[t] = "cn2"]_vars

\* CancelAsync holds the lock while the provider is inside DoWork on another
\* thread and goes on to make an API call on the block
LockNotHeldAcrossCallsWitness ==
    /\ blk.lock
    /\ \E w \in Workers : pc[w] = "wk_dowork" /\ ~wk[w].called
    /\ calls.provider < MaxProviderCalls

\* ---- properties of the async calls: CancelAsync and late calls ---------------
\* C27: a CancelAsync on a block whose status is already terminal changes
\* nothing: block, state, queues and timer are as before, no provider op is
\* invoked and completion is not signaled, neither when the call looks at
\* the status nor when it returns.
CancelOnTerminalIsNoOp ==
    /\ [](\A t \in Clients :
            loc[t].op = "CancelAsync" /\ ~loc[t].won
            => pc[t] = "exit" /\ loc[t].st = "null")
    /\ [][\A t \in Clients :
            \/ /\ loc[t].op = "none" /\ loc'[t].op = "CancelAsync"
               /\ blk.status # "E_PENDING"
            \/ /\ loc[t].op = "CancelAsync" /\ ~loc[t].won
               /\ loc'[t].op = "none"
            => /\ blk' = blk /\ S' = S
               /\ workQ' = workQ /\ complQ' = complQ
               /\ timerArmed' = timerArmed
               /\ g'.cancelOps = g.cancelOps /\ g'.cleanupOps = g.cleanupOps
               /\ g'.signals = g.signals
               /\ ~loc'[t].won]_vars

\* a CancelAsync returns from a call completed with a payload: the state is
\* still attached to the block
CancelOnTerminalIsNoOpWitness ==
    \E t \in Clients :
        /\ pc[t] = "exit" /\ loc[t].op = "CancelAsync" /\ ~loc[t].won
        /\ blk.status = "S_OK" /\ blk.state = "S" /\ g.signals = 1

\* C28: after CancelAsync has won, the status stays E_ABORT, completion is
\* signaled at most once and the Cleanup op is invoked at most once; a
\* CompleteAsync with a result other than E_PENDING that arrives then gets
\* no state, signals nothing, enters no cleanup and releases no reference.
LateCompleteTolerated ==
    /\ [](g.wonBy = "CancelAsync"
            => blk.status = "E_ABORT" /\ g.signals <= 1 /\ g.cleanupOps <= 1)
    /\ [][\A t \in Threads :
            /\ g.wonBy = "CancelAsync"
            /\ \/ /\ loc[t].op = "none" /\ loc'[t].op = "CompleteAsync"
                  /\ loc'[t].result # "E_PENDING"
               \/ /\ loc[t].op = "CompleteAsync" /\ loc[t].afterTerm
                  /\ loc'[t].op = "none"
            => /\ blk' = blk /\ S' = S /\ complQ' = complQ
               /\ g'.signals = g.signals /\ g'.cleanupOps = g.cleanupOps
               /\ g'.deletes = g.deletes
               /\ loc'[t].op = "CompleteAsync"
                     => /\ pc'[t] = "exit" /\ loc'[t].st = "null"
                        /\ ~loc'[t].completedNow]_vars

\* a CompleteAsync(S_OK, 0) returns after CancelAsync won and cleaned up
LateCompleteToleratedWitness ==
    \E t \in Threads :
        /\ pc[t] = "exit" /\ loc[t].op = "CompleteAsync" /\ loc[t].afterTerm
        /\ loc[t].result = "S_OK" /\ loc[t].doCleanup
        /\ g.wonBy = "CancelAsync" /\ g.cleanupOps = 1 /\ ~crashed

\* C29: in a CancelAsync that won, the status is E_ABORT and the state is
\* out of the block from the first step on; the canceled flag is set before
\* the lock is given up; the timer, if there is one, is cancelled before
\* the provider's Cancel op is invoked; the Cancel op precedes the completion
\* signal, and the signal precedes the Cleanup op and the release of the
\* block's reference.
CancelOrder ==
    /\ [](\A t \in Clients :
            loc[t].op = "CancelAsync" /\ loc[t].won
            => /\ blk.status = "E_ABORT" /\ blk.state = "null"
               /\ pc[t] \in {"cn2", "cn3", "cn4", "cn_prov", "cl_prov", "exit"}
               /\ pc[t] = "cn2" => blk.lock
               /\ pc[t] # "cn2" => S.canceled /\ ~blk.lock
               /\ g.cancelOps = (IF pc[t] \in {"cn2", "cn3", "cn4"} THEN 0 ELSE 1)
               /\ g.signals = (IF pc[t] \in {"cl_prov", "exit"} THEN 1 ELSE 0)
               /\ g.cleanupOps = g.signals)
    /\ [][\A t \in Clients :
            loc[t].op = "CancelAsync" /\ loc[t].won
            => /\ g'.cancelOps > g.cancelOps /\ S.timer => pc[t] = "cn4"
               /\ pc[t] = "cn3" /\ pc'[t] = "cn4" => ~timerArmed'
               /\ pc[t] = "cl_prov" /\ pc'[t] = "exit"
                  => S'.refs < S.refs]_vars

\* a CancelAsync that won while the timer was armed has cancelled the timer,
\* released its reference and returned
CancelOrderWitness ==
    \E t \in Clients :
        /\ pc[t] = "exit" /\ loc[t].op = "CancelAsync" /\ loc[t].won
        /\ S.timer /\ g.timerReleases = 1 /\ ~crashed

\* ---- properties of CleanupState on a shared queue ------------------------------
\* C30: CleanupState drops from the Work channel exactly the callbacks of
\* this state, keeps the others in their order, leaves the Completion
\* channel alone and releases one reference per dropped callback plus the
\* block's reference; at every moment the reference count is the number of
\* holders: the queued callbacks of the call, the reaper's own reference and
\* the block's reference the reaper has yet to release.
CleanupRemovesOwnWork ==
    /\ [](/\ S.refs = OwnCallbacks(workQ) + OwnCallbacks(complQ)
                      + Cardinality({t \in Clients : pc[t] = "cl_prov"})
                      + Cardinality({t \in Clients :
                                        pc[t] # "idle" /\ loc[t].st = "S"})
          /\ S.alive <=> S.refs > 0)
    /\ [][\A t \in Clients :
            pc[t] = "cl_prov" /\ pc'[t] = "exit"
            => /\ workQ' = SelectSeq(workQ, LAMBDA c : c # "S")
               /\ complQ' = complQ
               /\ S'.refs = S.refs - OwnCallbacks(workQ) - 1
               /\ g'.removed = g.removed + OwnCallbacks(workQ)]_vars

\* the reaping call has returned: one Work callback of the call was removed
\* from among callbacks of another call, which are still queued, and the
\* queued completion callback keeps the state alive
CleanupRemovesOwnWorkWitness ==
    /\ \A t \in Clients : pc[t] = "idle"
    /\ g.removed = 1
    /\ Len(workQ) >= 2 /\ OwnCallbacks(workQ) = 0
    /\ OwnCallbacks(complQ) = 1 /\ S.alive /\ S.refs = 1

PendingCompleteIsNoOp ==
    [][\A t \in Threads :
          \/ /\ loc[t].op = "none" /\ loc'[t].op = "CompleteAsync"
             /\ loc'[t].result = "E_PENDING"
          \/ /\ loc[t].op = "CompleteAsync" /\ loc[t].result = "E_PENDING"
             /\ loc'[t].op = "none"
          => /\ blk' = blk /\ S' = S /\ g' = g
             /\ workQ' = workQ /\ complQ' = complQ
             /\ timerArmed' = timerArmed /\ globalCount' = globalCount]_vars

\* CompleteAsync(E_PENDING) is about to return on a call that is still
\* pending and still owns its state
PendingCompleteIsNoOpWitness ==
    /\ begun /\ GetStatus(blk) = "E_PENDING" /\ blk.state = "S" /\ S.alive
    /\ \E t \in Threads :
          /\ pc[t] = "exit" /\ loc[t].op = "CompleteAsync"
          /\ loc[t].result = "E_PENDING"

\* Work callbacks of the call that are outstanding: queued on the work side,
\* held by the armed timer, or held by a ScheduleAsync(delay) that won the
\* compare-exchange and is about to arm the timer
WorkOutstanding ==
    Len(workQ) + (IF timerArmed THEN 1 ELSE 0)
    + Cardinality({t \in Threads : pc[t] \in {"sc_t1", "sc_t2"}})

\* C37: an AsyncState has at most one Work callback outstanding, and while
\* one is outstanding workScheduled is set; a ScheduleAsync gets past the
\* workScheduled compare-exchange only in a state where none is outstanding
\* and workScheduled is clear, that is after the worker dequeued the
\* previous one and cleared the flag.
AtMostOneWork ==
    /\ [](/\ WorkOutstanding <= 1
          /\ WorkOutstanding = 1 => S.workScheduled)
    /\ [][\A t \in Threads :
             pc[t] = "sc3" /\ pc'[t] \in {"sc_addref", "sc_t1"}
             => WorkOutstanding = 0 /\ ~S.workScheduled]_vars

\* a provider's ScheduleAsync inside DoWork succeeded after the worker had
\* dequeued the Work callback BeginAsync had scheduled
AtMostOneWorkWitness ==
    /\ g.didWork /\ WorkOutstanding = 1 /\ S.workScheduled
    /\ \E w \in Workers :
          pc[w] = "sc_addref" /\ loc[w].op = "ScheduleAsync"

\* ---- properties of the async calls: cleanup -------------------------------------
\* C38: the provider's Cleanup op is invoked at most once for the call, and
\* the step that invokes it is made by a thread that took the state
\* pointer out of the block: afterwards the block holds nullptr.
CleanupAtMostOnce ==
    /\ [](g.cleanupOps <= 1)
    /\ [][g'.cleanupOps > g.cleanupOps
             => g.cleanupOps = 0 /\ blk'.state = "null"]_vars

\* CancelAsync cleaned the call up, and a GetAsyncResult is returning that
\* found no state left to extract
CleanupAtMostOnceWitness ==
    /\ g.cleanupOps = 1 /\ g.wonBy = "CancelAsync" /\ ~crashed
    /\ \E t \in Threads :
          /\ pc[t] = "exit" /\ loc[t].op = "GetAsyncResult"
          /\ loc[t].st = "null"

FailedScheduleRestores ==
    \A t \in Threads :
        /\ pc[t] = "exit" /\ loc[t].op = "ScheduleAsync"
        /\ loc[t].res = "E_OUTOFMEMORY"
        => /\ ~S.workScheduled
           /\ WorkOutstanding = 0

\* ---- properties of the thread pool: termination ---------------------------------
\* C33: a worker exits only when no submitted call remains uninvoked: while
\* a worker thread has exited, m_calls is 0 (Submit is not called once
\* Terminate was, so a call still counted in m_calls was submitted before).
WorkersDrainBeforeExit ==
    \A w \in PoolWorkers : pth[w].pc = "exited" => pool.m_calls = 0

\* Terminate is in progress and no thread of the pool can take a step unless
\* a wait returns spuriously: every worker is blocked in m_wake.wait or has
\* exited (so every callback has returned), and the caller of Terminate is
\* blocked in m_active.wait or in the join of a worker that has not exited
TerminateAtRest ==
    /\ pool.m_terminate
    /\ \A w \in PoolWorkers : pth[w].pc \in {"waiting", "exited"}
    /\ \/ pth[0].pc \in {"idle", "t_waiting"}
       \/ /\ pth[0].pc = "t_join"
          /\ \E w \in PoolWorkers : pth[w].pc = "waiting"

\* C34: Terminate called from a thread outside the pool returns: once every
\* callback has returned and the pool's threads have come to rest, the call
\* has returned.
TerminateReturns ==
    ph.caller = {0} /\ TerminateAtRest => ph.returned

\* C35: m_activeCalls never drops below zero, and outside the two
\* increments of a Submit it equals the number of Submits whose call was
\* not yet action-completed.
ActiveCallsCounted ==
    /\ pool.m_activeCalls >= 0
    /\ pth[0].pc # "s2" => pool.m_activeCalls = ph.submits - ph.completed

\* C36: the ThreadPoolImpl object exists as long as a worker thread has not
\* exited, in particular while a worker is inside the callback, inside a
\* Terminate it called from the callback, or between the callback's return
\* and its own Release; and the reference count covers every worker that is
\* between its AddRef and its Release.
PoolOutlivesWorkers ==
    /\ \A w \in PoolWorkers : pth[w].pc # "exited" => ~pool.deleted
    /\ pool.m_refs >= Cardinality({w \in PoolWorkers :
                          pth[w].pc \notin {"start", "waiting", "woken",
                                            "rewait", "exited"}})

\* a worker called ActionComplete and Terminate from inside the callback;
\* Terminate returned and released the pool's reference, and the worker's
\* own Release after the callback destroyed the object
PoolOutlivesWorkersWitness ==
    /\ pool.deleted /\ ph.returned
    /\ \E w \in PoolWorkers : ph.caller = {w} /\ pth[w].pc = "exited"

====
